---- MODULE Spec2Model ----
(***************************************************************************)
(* Model of the Dell iDRAC metrics emulators:                              *)
(*   multi_server_emulator.py  fleet emulator (publisher_loop)             *)
(*   idrac_emulator.py         single-server emulator (CloudWatchPublisher) *)
(* Time is in seconds. Temperatures, power and percentages are fixed-point *)
(* numbers in thousandths (Scale), fan speeds are integers (RPM).          *)
(***************************************************************************)
EXTENDS Integers, Sequences, FiniteSets, TLC

VARIABLES
    prog,               \* which program runs: "fleet", "single_loop", "single_call"
    backend,            \* cloudwatch.put_metric_data: "any", "every5th", "down"
    pc,                 \* position of the running loop / call
    now,                \* the clock (time.time(), datetime.utcnow())
    ticks,              \* number of iterations of the while-loop started
    calls,              \* number of put_metric_data calls the backend has received
    submitted,          \* put_metric_data calls of the current tick: batch and outcome
    log,                \* the last line the loop logged
    slept,              \* length of the last time.sleep that completed
    num_servers,        \* argument of MultiServerCloudWatchPublisher.__init__
    servers,            \* self.servers (dict in insertion order): the keys
    start_time,         \* publisher_loop: start_time
    duration,           \* publisher_loop: duration
    all_metrics,        \* collect_all_metrics / publish_all_metrics: all_metrics
    srv,                \* collect_all_metrics: position in self.servers (1-based)
    kind,               \* collect_all_metrics: position in server_metrics (1-based)
    i,                  \* loop variable of the batching loops (0-based offset)
    total_batches,      \* publish_all_metrics: total_batches
    successful_batches, \* publish_all_metrics: successful_batches
    success,            \* publisher_loop: success (return value of publish_all_metrics)
    enabled,            \* CloudWatchPublisher.enabled
    metrics_data,       \* CloudWatchPublisher.publish_metrics: argument
    metric_data,        \* CloudWatchPublisher.publish_metrics: metric_data
    gen,                \* the generator under test: its baseline attributes
    metrics,            \* the value the last generator call returned
    generators,         \* self.servers: the values, generators[k] under key servers[k]
    server_metrics,     \* collect_all_metrics: server_metrics of the current server
    rng,                \* the random draws made: "low" (lower end), "ends" (either end)
    metric_name,        \* _get_metric_type: argument
    metric_type,        \* _get_metric_type: return value
    mib,                \* SNMP agent: the variables written to the MIB, (OID, value)
    response            \* SNMP agent: the last request answered: op, oid, value

vars == <<prog, backend, pc, now, ticks, calls, submitted, log, slept,
          num_servers, servers, start_time, duration, all_metrics, srv, kind,
          i, total_batches, successful_batches, success,
          enabled, metrics_data, metric_data, gen, metrics,
          generators, server_metrics, rng, metric_name, metric_type, mib, response>>

fleetVars == <<num_servers, servers, start_time, duration, all_metrics, srv, kind,
               total_batches, successful_batches, success,
               generators, server_metrics, rng>>

singleVars == <<enabled, metrics_data, metric_data>>

genVars == <<gen, metrics>>

regVars == <<generators, server_metrics, rng>>

typeVars == <<metric_name, metric_type>>

snmpVars == <<mib, response>>

\* ---------------------------------------------------------------- bounds
MaxServers == 3     \* fleet sizes 0..MaxServers in Spec
EndsServers == 2    \* fleet sizes 1..EndsServers in SpecEnds
MaxRequests == 2    \* SNMP requests the agent answers in SpecSnmp
BigFleet == 1001    \* a fleet whose last indices have four digits, in SpecReg
MaxTicks == 2       \* iterations of a publishing loop
MaxElapsed == 1     \* seconds the clock may advance while a tick is at work
MaxLen == 41        \* longest list handed to CloudWatchPublisher.publish_metrics
GridN == 1          \* interior points of a random draw, besides its two ends

\* ------------------------------------------------------ program constants
NUM_SERVERS == 200
PUBLISH_INTERVAL == 60
BackendLimit == 20  \* "CloudWatch accepts max 20 metrics per request"

\* a batch size above the limit of the backend
batch_size_25 == BackendLimit + 5

batch_size == 20
SINGLE_BATCH == 20
SINGLE_INTERVAL == 60

\* ---------------------------------------------------------------- helpers
Min(a, b) == IF a < b THEN a ELSE b

Max(a, b) == IF a > b THEN a ELSE b

\* the least and the greatest element of a finite set of integers
SetMin(S) == CHOOSE x \in S : \A y \in S : x <= y

SetMax(S) == CHOOSE x \in S : \A y \in S : x >= y

\* Slice with the 0-based offsets taken as 1-based positions
SliceOneBased(s, a, b) == SubSeq(s, a + 2, Min(b + 1, Len(s)))

\* Python slice s[a:b] for 0 <= a <= b (0-based, end exclusive, clipped)
Slice(s, a, b) == SubSeq(s, a + 1, Min(b, Len(s)))

\* Python: sub in s, on strings given as sequences of characters
Contains(sub, s) ==
    \E k \in 0..(Len(s) - Len(sub)) : SubSeq(s, k + 1, k + Len(sub)) = sub

\* the ten keys of the dict get_all_metrics returns, in insertion order
MetricKinds ==
    << "cpu1_temp", "cpu2_temp", "inlet_temp", "exhaust_temp", "fan1_speed",
       "fan2_speed", "power_consumption", "cpu_usage", "memory_usage", "disk_temp" >>

\* the characters of the metric names
Chars(name) ==
    CASE name = "cpu1_temp" -> <<"c","p","u","1","_","t","e","m","p">>
      [] name = "cpu2_temp" -> <<"c","p","u","2","_","t","e","m","p">>
      [] name = "inlet_temp" -> <<"i","n","l","e","t","_","t","e","m","p">>
      [] name = "exhaust_temp" -> <<"e","x","h","a","u","s","t","_","t","e","m","p">>
      [] name = "fan1_speed" -> <<"f","a","n","1","_","s","p","e","e","d">>
      [] name = "fan2_speed" -> <<"f","a","n","2","_","s","p","e","e","d">>
      [] name = "power_consumption" ->
            <<"p","o","w","e","r","_","c","o","n","s","u","m","p","t","i","o","n">>
      [] name = "cpu_usage" -> <<"c","p","u","_","u","s","a","g","e">>
      [] name = "memory_usage" -> <<"m","e","m","o","r","y","_","u","s","a","g","e">>
      [] name = "disk_temp" -> <<"d","i","s","k","_","t","e","m","p">>
      [] name = "uptime" -> <<"u","p","t","i","m","e">>
      [] name = "network_throughput" ->
            <<"n","e","t","w","o","r","k","_","t","h","r","o","u","g","h","p","u","t">>
      [] name = "CPU1_Temperature" ->
            <<"C","P","U","1","_","T","e","m","p","e","r","a","t","u","r","e">>
      [] name = "Fan1_Speed" -> <<"F","a","n","1","_","S","p","e","e","d">>
      [] name = "fan_power" -> <<"f","a","n","_","p","o","w","e","r">>
      [] name = "power_usage" -> <<"p","o","w","e","r","_","u","s","a","g","e">>
      [] name = "fan_temp_usage" ->
            <<"f","a","n","_","t","e","m","p","_","u","s","a","g","e">>
      [] name = "tem" -> <<"t","e","m">>
      [] OTHER -> <<>>

\* _get_metric_type without its test for 'fan'
_get_metric_type_no_fan(name) ==
    IF Contains(<<"t","e","m","p">>, Chars(name)) THEN "Thermal"
    ELSE IF Contains(<<"p","o","w","e","r">>, Chars(name)) THEN "Power"
    ELSE IF Contains(<<"u","s","a","g","e">>, Chars(name)) THEN "Performance"
    ELSE "General"

\* _get_metric_type(self, metric_name)
_get_metric_type(name) ==
    IF Contains(<<"t","e","m","p">>, Chars(name)) THEN "Thermal"
    ELSE IF Contains(<<"f","a","n">>, Chars(name)) THEN "Cooling"
    ELSE IF Contains(<<"p","o","w","e","r">>, Chars(name)) THEN "Power"
    ELSE IF Contains(<<"u","s","a","g","e">>, Chars(name)) THEN "Performance"
    ELSE "General"

UnitOf(name) ==
    IF Contains(<<"u","s","a","g","e">>, Chars(name)) THEN "Percent" ELSE "None"

\* decimal digits of n >= 0, most significant first
RECURSIVE Digits(_)
Digits(n) == IF n < 10 THEN <<n>> ELSE Append(Digits(n \div 10), n % 10)

\* format spec 03d: zero-padded on the left to at least three digits
RECURSIVE Pad03(_)
Pad03(ds) == IF Len(ds) >= 3 THEN ds ELSE Pad03(<<0>> \o ds)

\* an identifier of exactly three digits: the index is cut to its last three
ServerIdOfThreeDigits(n) == <<"DELL-SRV-">> \o Pad03(Digits(n % 1000))

\* f"DELL-SRV-{i:03d}"
ServerIdOf(n) == <<"DELL-SRV-">> \o Pad03(Digits(n))

\* self.servers[server_id] = ...   (a dict keeps one entry per key)
DictPut(keys, key) ==
    IF \E k \in 1..Len(keys) : keys[k] = key THEN keys ELSE Append(keys, key)

\* self.servers[server_id] = ServerMetricsGenerator(server_id): the values of
\* the dict, in the order of its keys
DictPutValue(keys, vals, key, val) ==
    IF \E k \in 1..Len(keys) : keys[k] = key
       THEN [k \in 1..Len(keys) |-> IF keys[k] = key THEN val ELSE vals[k]]
       ELSE Append(vals, val)

\* DataPoint of a collector that tags every entry with the first server
DataPointFirstServer(server_id, name, value, ts) ==
    [ MetricName |-> name,
      Value      |-> value,
      Unit       |-> UnitOf(name),
      Timestamp  |-> ts,
      ServerID   |-> ServerIdOf(1),
      MetricType |-> _get_metric_type(name) ]

\* one entry appended to all_metrics by collect_all_metrics
DataPoint(server_id, name, value, ts) ==
    [ MetricName |-> name,
      Value      |-> value,
      Unit       |-> UnitOf(name),
      Timestamp  |-> ts,
      ServerID   |-> server_id,
      MetricType |-> _get_metric_type(name) ]

\* TotalBatches without the batch for the remainder
TotalBatchesFloor(len) == len \div batch_size

\* len(all_metrics) // batch_size + (1 if len(all_metrics) % batch_size else 0)
TotalBatches(len) ==
    (len \div batch_size) + (IF len % batch_size # 0 THEN 1 ELSE 0)

\* outcome of the next cloudwatch.put_metric_data call
Outcomes ==
    IF backend = "every5th" THEN {(calls + 1) % 5 # 0}
    ELSE IF backend = "down" THEN {FALSE}
    ELSE BOOLEAN


\* ------------------------------------------------------ metric generation
\* fixed point: a value v stands for v / Scale
Scale == 10 * 100

\* Python round(x, ndigits) on an exact decimal: to the nearest multiple of
\* unit, a tie to the even multiple
RoundTo(x, unit) ==
    LET q == x \div unit
        r == x % unit
    IN  IF 2 * r < unit THEN q * unit
        ELSE IF 2 * r > unit THEN (q + 1) * unit
        ELSE IF q % 2 = 0 THEN q * unit ELSE (q + 1) * unit

\* round(x, 1)
Round1(x) == RoundTo(x, Scale \div 10)

\* round(x, 2)
Round2(x) == RoundTo(x, Scale \div 100)

\* random.uniform(lo, hi): both ends and GridN points in between
Uniform(lo, hi) ==
    {lo * Scale, hi * Scale}
        \cup {lo * Scale + (k * (hi - lo) * Scale) \div (GridN + 2) : k \in 1..GridN}

\* random.uniform(lo, hi) of a reading that no baseline enters: both ends
UniformEnds(lo, hi) == {lo * Scale, hi * Scale}

\* random.randint(lo, hi): both ends and GridN points in between
RandInt(lo, hi) ==
    {lo, hi} \cup {lo + (k * (hi - lo)) \div (GridN + 2) : k \in 1..GridN}

\* ServerMetricsGenerator.__init__: the baselines it can draw
ServerBaselines ==
    [ base_cpu_temp  : Uniform(40, 50),
      base_power     : Uniform(200, 400),
      base_fan_speed : RandInt(2500, 4000) ]

\* the random draws of one ServerMetricsGenerator.get_all_metrics call
ServerDraws ==
    [ cpu1_temp         : Uniform(-5, 15),
      cpu2_temp         : Uniform(-5, 15),
      inlet_temp        : UniformEnds(20, 35),
      exhaust_temp      : UniformEnds(30, 50),
      fan1_speed        : RandInt(-500, 1000),
      fan2_speed        : RandInt(-500, 1000),
      power_consumption : Uniform(-50, 100),
      cpu_usage         : UniformEnds(10, 85),
      memory_usage      : UniformEnds(30, 75),
      disk_temp         : UniformEnds(25, 55) ]

\* ServerMetricsGenerator.get_all_metrics, self = g, the random draws = d
get_all_metrics(g, d) ==
    [ cpu1_temp         |-> Round1(g.base_cpu_temp + d.cpu1_temp),
      cpu2_temp         |-> Round1(g.base_cpu_temp + d.cpu2_temp),
      inlet_temp        |-> Round1(d.inlet_temp),
      exhaust_temp      |-> Round1(d.exhaust_temp),
      fan1_speed        |-> Max(2000, g.base_fan_speed + d.fan1_speed),
      fan2_speed        |-> Max(2000, g.base_fan_speed + d.fan2_speed),
      power_consumption |-> Round2(g.base_power + d.power_consumption),
      cpu_usage         |-> Round2(d.cpu_usage),
      memory_usage      |-> Round2(d.memory_usage),
      disk_temp         |-> Round1(d.disk_temp) ]

\* the ends of their ranges the random draws of a fleet can take
RngEnds == IF rng = "low" THEN {"lo"} ELSE {"lo", "hi"}

\* end u of the range S of a draw
EndOf(S, u) == IF u = "lo" THEN SetMin(S) ELSE SetMax(S)

\* ServerMetricsGenerator(server_id) with every baseline drawn at end u
ServerMetricsGenerator(server_id, u) ==
    [ server_id      |-> server_id,
      base_cpu_temp  |-> EndOf(Uniform(40, 50), u),
      base_power     |-> EndOf(Uniform(200, 400), u),
      base_fan_speed |-> EndOf(RandInt(2500, 4000), u) ]

\* the draws of one get_all_metrics call, every one at end u of its range
ServerDrawAt(u) ==
    [ cpu1_temp         |-> EndOf(Uniform(-5, 15), u),
      cpu2_temp         |-> EndOf(Uniform(-5, 15), u),
      inlet_temp        |-> EndOf(UniformEnds(20, 35), u),
      exhaust_temp      |-> EndOf(UniformEnds(30, 50), u),
      fan1_speed        |-> EndOf(RandInt(-500, 1000), u),
      fan2_speed        |-> EndOf(RandInt(-500, 1000), u),
      power_consumption |-> EndOf(Uniform(-50, 100), u),
      cpu_usage         |-> EndOf(UniformEnds(10, 85), u),
      memory_usage      |-> EndOf(UniformEnds(30, 75), u),
      disk_temp         |-> EndOf(UniformEnds(25, 55), u) ]

\* server_metrics[metric_name]
ValueOf(sm, name) ==
    CASE name = "cpu1_temp" -> sm.cpu1_temp
      [] name = "cpu2_temp" -> sm.cpu2_temp
      [] name = "inlet_temp" -> sm.inlet_temp
      [] name = "exhaust_temp" -> sm.exhaust_temp
      [] name = "fan1_speed" -> sm.fan1_speed
      [] name = "fan2_speed" -> sm.fan2_speed
      [] name = "power_consumption" -> sm.power_consumption
      [] name = "cpu_usage" -> sm.cpu_usage
      [] name = "memory_usage" -> sm.memory_usage
      [] name = "disk_temp" -> sm.disk_temp

\* MetricsGenerator.__init__
MetricsGeneratorInit ==
    [ base_cpu_temp |-> 45 * Scale, base_power |-> 250 * Scale, base_fan_speed |-> 3000 ]

get_cpu_temperature(g, variation) == Round1(g.base_cpu_temp + variation)

get_memory_temperature(g, draw) == Round1(draw)

get_inlet_temperature(g, draw) == Round1(draw)

get_exhaust_temperature(g, draw) == Round1(draw)

\* get_fan_speed with the variation subtracted and no floor
get_fan_speed_no_floor(g, variation) == g.base_fan_speed - variation

get_fan_speed(g, variation) == Max(2000, g.base_fan_speed + variation)

get_power_consumption(g, variation) == Round2(g.base_power + variation)

get_cpu_usage(g, draw) == Round2(draw)

get_memory_usage(g, draw) == Round2(draw)

get_disk_temperature(g, draw) == Round1(draw)

get_network_throughput(g, draw) == Round2(draw)

\* the methods of MetricsGenerator
Getters ==
    { "get_cpu_temperature", "get_memory_temperature", "get_inlet_temperature",
      "get_exhaust_temperature", "get_fan_speed", "get_power_consumption",
      "get_cpu_usage", "get_memory_usage", "get_disk_temperature",
      "get_network_throughput" }

\* the random draw each method of MetricsGenerator makes
GetterDraws(m) ==
    CASE m = "get_cpu_temperature" -> Uniform(-5, 15)
      [] m = "get_memory_temperature" -> Uniform(35, 65)
      [] m = "get_inlet_temperature" -> Uniform(20, 35)
      [] m = "get_exhaust_temperature" -> Uniform(30, 50)
      [] m = "get_fan_speed" -> RandInt(-1000, 2000)
      [] m = "get_power_consumption" -> Uniform(-50, 150)
      [] m = "get_cpu_usage" -> Uniform(10, 85)
      [] m = "get_memory_usage" -> Uniform(30, 75)
      [] m = "get_disk_temperature" -> Uniform(25, 55)
      [] m = "get_network_throughput" -> Uniform(10, 1000)

\* the value method m of MetricsGenerator g returns on draw v
GetterValue(m, g, v) ==
    CASE m = "get_cpu_temperature" -> get_cpu_temperature(g, v)
      [] m = "get_memory_temperature" -> get_memory_temperature(g, v)
      [] m = "get_inlet_temperature" -> get_inlet_temperature(g, v)
      [] m = "get_exhaust_temperature" -> get_exhaust_temperature(g, v)
      [] m = "get_fan_speed" -> get_fan_speed(g, v)
      [] m = "get_power_consumption" -> get_power_consumption(g, v)
      [] m = "get_cpu_usage" -> get_cpu_usage(g, v)
      [] m = "get_memory_usage" -> get_memory_usage(g, v)
      [] m = "get_disk_temperature" -> get_disk_temperature(g, v)
      [] m = "get_network_throughput" -> get_network_throughput(g, v)

\* ------------------------------------------------------------------- Init
InitCommon ==
    /\ now = 0 /\ ticks = 0 /\ calls = 0 /\ submitted = <<>> /\ log = "" /\ slept = 0
    /\ servers = <<>> /\ start_time = 0 /\ duration = 0 /\ all_metrics = <<>>
    /\ srv = 0 /\ kind = 0 /\ i = 0 /\ total_batches = 0 /\ successful_batches = 0
    /\ success = FALSE /\ metric_data = <<>>
    /\ generators = <<>> /\ server_metrics = <<>>
    /\ metric_type = ""
    /\ mib = <<>> /\ response = <<>>

\* python multi_server_emulator.py, for fleets of 0..MaxServers servers
InitFleet ==
    /\ prog = "fleet" /\ backend = "any" /\ pc = "construct"
    /\ num_servers \in 0..MaxServers
    /\ enabled = TRUE /\ metrics_data = <<>>
    /\ gen = <<>> /\ metrics = <<>>
    /\ rng = "low"
    /\ metric_name = ""
    /\ InitCommon

\* ------------------------------------------- fleet emulator: publisher_loop
\* MultiServerCloudWatchPublisher.__init__: one iteration of
\* "for i in range(1, num_servers + 1)"; i counts the iterations done
ConstructServer ==
    /\ prog = "fleet" /\ pc = "construct" /\ i < num_servers
    /\ servers' = DictPut(servers, ServerIdOf(i + 1))
    /\ \E u \in RngEnds :
          generators' = DictPutValue(servers, generators, ServerIdOf(i + 1),
                                     ServerMetricsGenerator(ServerIdOf(i + 1), u))
    /\ i' = i + 1
    /\ UNCHANGED <<prog, backend, pc, now, ticks, calls, submitted, log, slept,
                   num_servers, start_time, duration, all_metrics, srv, kind,
                   total_batches, successful_batches, success, singleVars, genVars,
                   server_metrics, rng, typeVars, snmpVars>>

\* MultiServerCloudWatchPublisher.__init__ returns: the loop is exhausted
Constructed ==
    /\ prog = "fleet" /\ pc = "construct" /\ i >= num_servers
    /\ log' = "initialized"
    /\ pc' = "loop"
    /\ UNCHANGED <<prog, backend, now, ticks, calls, submitted, slept, num_servers,
                   servers, start_time, duration, all_metrics, srv, kind, i,
                   total_batches, successful_batches, success, singleVars, genVars, regVars, typeVars, snmpVars>>

\* TickStart with generators that drift: the CPU baseline of the last server
\* follows the last cpu1_temp reading of that server
TickStartDrift ==
    /\ prog = "fleet" /\ pc = "loop" /\ ticks < MaxTicks
    /\ ticks' = ticks + 1
    /\ start_time' = now
    /\ all_metrics' = <<>> /\ srv' = 1 /\ kind' = 1
    /\ submitted' = <<>>
    /\ i' = 0 /\ total_batches' = 0 /\ successful_batches' = 0
    /\ log' = "collecting"
    /\ pc' = "collect"
    /\ generators' = IF server_metrics = <<>> THEN generators
                     ELSE [generators EXCEPT
                             ![Len(generators)].base_cpu_temp = server_metrics.cpu1_temp]
    /\ UNCHANGED <<prog, backend, now, calls, slept, num_servers, servers,
                   duration, success, singleVars, genVars, server_metrics, rng,
                   typeVars, snmpVars>>

\* while True: try: start_time = time.time(); publish_all_metrics() is entered
TickStart ==
    /\ prog = "fleet" /\ pc = "loop" /\ ticks < MaxTicks
    /\ ticks' = ticks + 1
    /\ start_time' = now
    /\ all_metrics' = <<>> /\ srv' = 1 /\ kind' = 1
    /\ submitted' = <<>>
    /\ i' = 0 /\ total_batches' = 0 /\ successful_batches' = 0
    /\ log' = "collecting"
    /\ pc' = "collect"
    /\ UNCHANGED <<prog, backend, now, calls, slept, num_servers, servers,
                   duration, success, singleVars, genVars, regVars, typeVars, snmpVars>>

\* CollectPoint of a collector that leaves the loop over a server's metrics one
\* item early
CollectPointSkipLast ==
    /\ prog = "fleet" /\ pc = "collect" /\ srv <= Len(servers)
    /\ IF kind = 1
          THEN \E u \in RngEnds :
                  server_metrics' = get_all_metrics(generators[srv], ServerDrawAt(u))
          ELSE server_metrics' = server_metrics
    /\ all_metrics' = Append(all_metrics,
                             DataPoint(servers[srv], MetricKinds[kind],
                                       ValueOf(server_metrics', MetricKinds[kind]), now))
    /\ IF kind < Len(MetricKinds) - 1
          THEN kind' = kind + 1 /\ srv' = srv
          ELSE kind' = 1 /\ srv' = srv + 1
    /\ UNCHANGED <<prog, backend, pc, now, ticks, calls, submitted, log, slept,
                   num_servers, servers, start_time, duration, i, total_batches,
                   successful_batches, success, singleVars, genVars, generators, rng, typeVars, snmpVars>>

\* collect_all_metrics: one all_metrics.append(...), stamped datetime.utcnow();
\* before the first append of a server, server_metrics = generator.get_all_metrics()
CollectPoint ==
    /\ prog = "fleet" /\ pc = "collect" /\ srv <= Len(servers)
    /\ IF kind = 1
          THEN \E u \in RngEnds :
                  server_metrics' = get_all_metrics(generators[srv], ServerDrawAt(u))
          ELSE server_metrics' = server_metrics
    /\ all_metrics' = Append(all_metrics,
                             DataPoint(servers[srv], MetricKinds[kind],
                                       ValueOf(server_metrics', MetricKinds[kind]), now))
    /\ IF kind < Len(MetricKinds)
          THEN kind' = kind + 1 /\ srv' = srv
          ELSE kind' = 1 /\ srv' = srv + 1
    /\ UNCHANGED <<prog, backend, pc, now, ticks, calls, submitted, log, slept,
                   num_servers, servers, start_time, duration, i, total_batches,
                   successful_batches, success, singleVars, genVars, generators, rng, typeVars, snmpVars>>

\* collect_all_metrics as a whole, when the clock does not advance during the
\* call: every server in dict order, every metric in dict order
CollectAllMetrics ==
    /\ prog = "fleet" /\ pc = "collect" /\ srv = 1 /\ kind = 1
    /\ \E us \in [1..Len(servers) -> RngEnds] :
          LET sm(n) == get_all_metrics(generators[n], ServerDrawAt(us[n]))
          IN  /\ all_metrics' =
                    [ k \in 1..(Len(servers) * Len(MetricKinds)) |->
                        DataPoint(servers[((k - 1) \div Len(MetricKinds)) + 1],
                                  MetricKinds[((k - 1) % Len(MetricKinds)) + 1],
                                  ValueOf(sm(((k - 1) \div Len(MetricKinds)) + 1),
                                          MetricKinds[((k - 1) % Len(MetricKinds)) + 1]),
                                  now) ]
              /\ server_metrics' =
                    IF servers = <<>> THEN server_metrics ELSE sm(Len(servers))
    /\ srv' = Len(servers) + 1
    /\ kind' = 1
    /\ UNCHANGED <<prog, backend, pc, now, ticks, calls, submitted, log, slept,
                   num_servers, servers, start_time, duration, i, total_batches,
                   successful_batches, success, singleVars, genVars, generators, rng, typeVars, snmpVars>>

\* CollectReturn of a publisher that counts at least one batch per tick
CollectReturnAtLeastOne ==
    /\ prog = "fleet" /\ pc = "collect" /\ srv > Len(servers)
    /\ total_batches' = Max(1, TotalBatches(Len(all_metrics)))
    /\ successful_batches' = 0
    /\ i' = 0
    /\ pc' = "publish"
    /\ UNCHANGED <<prog, backend, now, ticks, calls, submitted, log, slept,
                   num_servers, servers, start_time, duration, all_metrics, srv, kind,
                   success, singleVars, genVars, regVars, typeVars, snmpVars>>

\* collect_all_metrics returns; publish_all_metrics sets up the batching
CollectReturn ==
    /\ prog = "fleet" /\ pc = "collect" /\ srv > Len(servers)
    /\ total_batches' = TotalBatches(Len(all_metrics))
    /\ successful_batches' = 0
    /\ i' = 0
    /\ pc' = "publish"
    /\ UNCHANGED <<prog, backend, now, ticks, calls, submitted, log, slept,
                   num_servers, servers, start_time, duration, all_metrics, srv, kind,
                   success, singleVars, genVars, regVars, typeVars, snmpVars>>

\* publish_metrics_batch without its try/except: a failure of the backend
\* escapes publish_all_metrics and reaches the handler of publisher_loop
publish_metrics_batch_uncaught(ok) ==
    /\ prog = "fleet" /\ pc = "publish" /\ i < Len(all_metrics)
    /\ submitted' = Append(submitted,
                           [batch |-> Slice(all_metrics, i, i + batch_size), ok |-> ok])
    /\ calls' = calls + 1
    /\ successful_batches' = IF ok THEN successful_batches + 1 ELSE successful_batches
    /\ log' = IF ok THEN log ELSE "error_loop"
    /\ i' = IF ok THEN i + batch_size ELSE i
    /\ pc' = IF ok THEN pc ELSE "except_sleep"
    /\ UNCHANGED <<prog, backend, now, ticks, slept, num_servers, servers,
                   start_time, duration, all_metrics, srv, kind, total_batches,
                   success, singleVars, genVars, regVars, typeVars, snmpVars>>

\* one iteration of "for i in range(0, len(all_metrics), batch_size)":
\* publish_metrics_batch(all_metrics[i:i+batch_size]) returns ok
publish_metrics_batch(ok) ==
    /\ prog = "fleet" /\ pc = "publish" /\ i < Len(all_metrics)
    /\ submitted' = Append(submitted,
                           [batch |-> Slice(all_metrics, i, i + batch_size), ok |-> ok])
    /\ calls' = calls + 1
    /\ successful_batches' = IF ok THEN successful_batches + 1 ELSE successful_batches
    /\ log' = IF ok THEN log ELSE "error_batch"
    /\ i' = i + batch_size
    /\ UNCHANGED <<prog, backend, pc, now, ticks, slept, num_servers, servers,
                   start_time, duration, all_metrics, srv, kind, total_batches,
                   success, singleVars, genVars, regVars, typeVars, snmpVars>>

PublishBatch == \E ok \in Outcomes : publish_metrics_batch(ok)

\* PublishReturn of a publisher that halts when no batch of the tick went through
PublishReturnHalt ==
    /\ prog = "fleet" /\ pc = "publish" /\ i >= Len(all_metrics)
    /\ success' = (successful_batches = total_batches)
    /\ log' = "published"
    /\ pc' = IF total_batches > 0 /\ successful_batches = 0 THEN "halted" ELSE "report"
    /\ UNCHANGED <<prog, backend, now, ticks, calls, submitted, slept, num_servers,
                   servers, start_time, duration, all_metrics, srv, kind, i,
                   total_batches, successful_batches, singleVars, genVars, regVars, typeVars, snmpVars>>

\* the for loop is exhausted: return successful_batches == total_batches
PublishReturn ==
    /\ prog = "fleet" /\ pc = "publish" /\ i >= Len(all_metrics)
    /\ success' = (successful_batches = total_batches)
    /\ log' = "published"
    /\ pc' = "report"
    /\ UNCHANGED <<prog, backend, now, ticks, calls, submitted, slept, num_servers,
                   servers, start_time, duration, all_metrics, srv, kind, i,
                   total_batches, successful_batches, singleVars, genVars, regVars, typeVars, snmpVars>>

\* LoopReport of a loop that gives up after a tick with a failed batch
LoopReportGiveUp ==
    /\ prog = "fleet" /\ pc = "report"
    /\ duration' = now - start_time
    /\ log' = IF success THEN "info_all_published" ELSE "warning_some_failed"
    /\ pc' = IF success THEN "sleep" ELSE "stopped"
    /\ UNCHANGED <<prog, backend, now, ticks, calls, submitted, slept, num_servers,
                   servers, start_time, all_metrics, srv, kind, i, total_batches,
                   successful_batches, success, singleVars, genVars, regVars, typeVars, snmpVars>>

\* publisher_loop: duration, then the info or the warning line
LoopReport ==
    /\ prog = "fleet" /\ pc = "report"
    /\ duration' = now - start_time
    /\ log' = IF success THEN "info_all_published" ELSE "warning_some_failed"
    /\ pc' = "sleep"
    /\ UNCHANGED <<prog, backend, now, ticks, calls, submitted, slept, num_servers,
                   servers, start_time, all_metrics, srv, kind, i, total_batches,
                   successful_batches, success, singleVars, genVars, regVars, typeVars, snmpVars>>

\* Sleep of a loop that ticks on the wall clock: the sleep is shortened by the
\* time the tick took
SleepToNextSlot ==
    /\ prog = "fleet" /\ pc = "sleep"
    /\ now' = now + (PUBLISH_INTERVAL - duration)
    /\ slept' = PUBLISH_INTERVAL - duration
    /\ pc' = "loop"
    /\ UNCHANGED <<prog, backend, ticks, calls, submitted, log, num_servers, servers,
                   start_time, duration, all_metrics, srv, kind, i, total_batches,
                   successful_batches, success, singleVars, genVars, regVars, typeVars, snmpVars>>

\* time.sleep(PUBLISH_INTERVAL) in the try block completes
Sleep ==
    /\ prog = "fleet" /\ pc = "sleep"
    /\ now' = now + PUBLISH_INTERVAL
    /\ slept' = PUBLISH_INTERVAL
    /\ pc' = "loop"
    /\ UNCHANGED <<prog, backend, ticks, calls, submitted, log, num_servers, servers,
                   start_time, duration, all_metrics, srv, kind, i, total_batches,
                   successful_batches, success, singleVars, genVars, regVars, typeVars, snmpVars>>

\* the clock advances while the tick is collecting or publishing
ClockAdvance ==
    /\ prog = "fleet" /\ pc \in {"collect", "publish", "report"}
    /\ now - start_time < MaxElapsed
    /\ now' = now + 1
    /\ UNCHANGED <<prog, backend, pc, ticks, calls, submitted, log, slept, num_servers,
                   servers, start_time, duration, all_metrics, srv, kind, i,
                   total_batches, successful_batches, success, singleVars, genVars, regVars, typeVars, snmpVars>>

\* TickError of a loop without "except Exception": the exception ends the loop
TickErrorUncaught ==
    /\ prog = "fleet" /\ pc \in {"collect", "publish", "report"}
    /\ log' = "traceback"
    /\ pc' = "stopped"
    /\ UNCHANGED <<prog, backend, now, ticks, calls, submitted, slept, num_servers,
                   servers, start_time, duration, all_metrics, srv, kind, i,
                   total_batches, successful_batches, success, singleVars, genVars, regVars, typeVars, snmpVars>>

\* an Exception escapes publish_all_metrics or the reporting:
\* except Exception as e: logger.error(...)
TickError ==
    /\ prog = "fleet" /\ pc \in {"collect", "publish", "report"}
    /\ log' = "error_loop"
    /\ pc' = "except_sleep"
    /\ UNCHANGED <<prog, backend, now, ticks, calls, submitted, slept, num_servers,
                   servers, start_time, duration, all_metrics, srv, kind, i,
                   total_batches, successful_batches, success, singleVars, genVars, regVars, typeVars, snmpVars>>

\* time.sleep(PUBLISH_INTERVAL) of the except block completes
ExceptSleep ==
    /\ prog = "fleet" /\ pc = "except_sleep"
    /\ now' = now + PUBLISH_INTERVAL
    /\ slept' = PUBLISH_INTERVAL
    /\ pc' = "loop"
    /\ UNCHANGED <<prog, backend, ticks, calls, submitted, log, num_servers, servers,
                   start_time, duration, all_metrics, srv, kind, i, total_batches,
                   successful_batches, success, singleVars, genVars, regVars, typeVars, snmpVars>>

\* Interrupt of a loop that flushes on shutdown: the batch the interrupt cut
\* short is submitted before the loop ends
InterruptFlush ==
    /\ prog = "fleet" /\ pc # "stopped"
    /\ log' = IF pc \in {"loop", "collect", "publish", "report", "sleep"}
                 THEN "shutting_down" ELSE "stopped_by_user"
    /\ pc' = "stopped"
    /\ IF pc = "publish" /\ i < Len(all_metrics)
         THEN /\ submitted' = Append(submitted,
                     [batch |-> Slice(all_metrics, i, i + batch_size), ok |-> TRUE])
              /\ calls' = calls + 1
         ELSE UNCHANGED <<submitted, calls>>
    /\ UNCHANGED <<prog, backend, now, ticks, slept, num_servers,
                   servers, start_time, duration, all_metrics, srv, kind, i,
                   total_batches, successful_batches, success, singleVars, genVars, regVars, typeVars, snmpVars>>

\* KeyboardInterrupt: caught in the try block (break), or, raised outside
\* it, caught by __main__
Interrupt ==
    /\ prog = "fleet" /\ pc # "stopped"
    /\ log' = IF pc \in {"loop", "collect", "publish", "report", "sleep"}
                 THEN "shutting_down" ELSE "stopped_by_user"
    /\ pc' = "stopped"
    /\ UNCHANGED <<prog, backend, now, ticks, calls, submitted, slept, num_servers,
                   servers, start_time, duration, all_metrics, srv, kind, i,
                   total_batches, successful_batches, success, singleVars, genVars, regVars, typeVars, snmpVars>>

FleetNext ==
    \/ ConstructServer
    \/ Constructed
    \/ TickStart
    \/ CollectPoint
    \/ CollectReturn
    \/ PublishBatch
    \/ PublishReturn
    \/ LoopReport
    \/ Sleep
    \/ ClockAdvance
    \/ TickError
    \/ ExceptSleep
    \/ Interrupt

\* ------------------------------- single-server emulator: CloudWatchPublisher
SERVER_ID == "emulated-server-001"

\* the reading metrics_gen.m() returns when its draw is at end u of its range
ReadingAt(m, u) ==
    GetterValue(m, MetricsGeneratorInit,
                IF u = "lo" THEN SetMin(GetterDraws(m)) ELSE SetMax(GetterDraws(m)))

\* collect_and_publish: the list metrics_data
CollectedMetrics(u) ==
    << [name |-> "CPU1_Temperature", value |-> ReadingAt("get_cpu_temperature", u),
        unit |-> "None", type |-> "Thermal"],
       [name |-> "CPU2_Temperature", value |-> ReadingAt("get_cpu_temperature", u),
        unit |-> "None", type |-> "Thermal"],
       [name |-> "Inlet_Temperature", value |-> ReadingAt("get_inlet_temperature", u),
        unit |-> "None", type |-> "Thermal"],
       [name |-> "Exhaust_Temperature", value |-> ReadingAt("get_exhaust_temperature", u),
        unit |-> "None", type |-> "Thermal"],
       [name |-> "Fan1_Speed", value |-> ReadingAt("get_fan_speed", u),
        unit |-> "None", type |-> "Thermal"],
       [name |-> "Fan2_Speed", value |-> ReadingAt("get_fan_speed", u),
        unit |-> "None", type |-> "Thermal"],
       [name |-> "Fan3_Speed", value |-> ReadingAt("get_fan_speed", u),
        unit |-> "None", type |-> "Thermal"],
       [name |-> "Power_Consumption", value |-> ReadingAt("get_power_consumption", u),
        unit |-> "None", type |-> "Power"],
       [name |-> "CPU_Usage", value |-> ReadingAt("get_cpu_usage", u),
        unit |-> "Percent", type |-> "Performance"],
       [name |-> "Memory_Usage", value |-> ReadingAt("get_memory_usage", u),
        unit |-> "Percent", type |-> "Performance"] >>

\* a list of n metrics a caller hands to publish_metrics: the value tells the
\* entries apart, every second entry has no 'unit' and no 'type' key
CallerMetrics(n) ==
    [ k \in 1..n |->
        IF k % 2 = 1
           THEN [name |-> "Metric", value |-> k, unit |-> "Percent", type |-> "Performance"]
           ELSE [name |-> "Metric", value |-> k] ]

\* publish_metrics: the dict appended to metric_data for one metric
SingleDataPoint(metric, ts) ==
    [ MetricName |-> metric.name,
      Value      |-> metric.value,
      Unit       |-> IF "unit" \in DOMAIN metric THEN metric.unit ELSE "None",
      Timestamp  |-> ts,
      ServerID   |-> SERVER_ID,
      MetricType |-> IF "type" \in DOMAIN metric THEN metric.type ELSE "General" ]

\* cw_publisher.publish_metrics(metrics_data) called with a list of 0..MaxLen metrics
InitSingleCall ==
    /\ prog = "single_call" /\ backend = "any" /\ pc = "s_call"
    /\ enabled \in BOOLEAN
    /\ \E n \in 0..MaxLen : metrics_data = CallerMetrics(n)
    /\ num_servers = 0 /\ gen = MetricsGeneratorInit /\ metrics = <<>>
    /\ rng = "low"
    /\ metric_name = ""
    /\ InitCommon

\* python idrac_emulator.py: the thread running cloudwatch_publisher_loop
InitSingleLoop ==
    /\ prog = "single_loop" /\ backend = "any" /\ pc = "s_loop"
    /\ enabled = TRUE /\ metrics_data = <<>>
    /\ num_servers = 0 /\ gen = MetricsGeneratorInit /\ metrics = <<>>
    /\ rng = "low"
    /\ metric_name = ""
    /\ InitCommon

\* while True: try: collect_and_publish() builds metrics_data
CollectAndPublish ==
    /\ prog = "single_loop" /\ pc = "s_loop" /\ ticks < MaxTicks
    /\ ticks' = ticks + 1
    /\ \E u \in {"lo", "hi"} : metrics_data' = CollectedMetrics(u)
    /\ submitted' = <<>>
    /\ metric_data' = <<>> /\ i' = 0
    /\ pc' = "s_call"
    /\ UNCHANGED <<prog, backend, now, calls, log, slept, fleetVars, enabled, genVars, typeVars, snmpVars>>

\* publish_metrics up to the batching loop: the early return when disabled,
\* else the conversion of every metric into metric_data
PublishMetricsConvert ==
    /\ prog \in {"single_loop", "single_call"} /\ pc = "s_call"
    /\ IF ~enabled
          THEN /\ pc' = "s_return"
               /\ UNCHANGED <<metric_data, i>>
          ELSE /\ metric_data' = [k \in 1..Len(metrics_data) |->
                                    SingleDataPoint(metrics_data[k], now)]
               /\ i' = 0
               /\ pc' = "s_publish"
    /\ UNCHANGED <<prog, backend, now, ticks, calls, submitted, log, slept, fleetVars,
                   enabled, metrics_data, genVars, typeVars, snmpVars>>

\* one iteration of "for i in range(0, len(metric_data), 20)": put_metric_data
\* returns (ok) or raises, and then "except Exception" ends the call
put_metric_data(ok) ==
    /\ prog \in {"single_loop", "single_call"} /\ pc = "s_publish"
    /\ i < Len(metric_data)
    /\ submitted' = Append(submitted,
                           [batch |-> Slice(metric_data, i, i + SINGLE_BATCH), ok |-> ok])
    /\ calls' = calls + 1
    /\ IF ok
          THEN /\ log' = "info_published"
               /\ i' = i + SINGLE_BATCH
               /\ pc' = pc
          ELSE /\ log' = "error_publishing"
               /\ i' = i
               /\ pc' = "s_return"
    /\ UNCHANGED <<prog, backend, now, ticks, slept, fleetVars, singleVars, genVars, regVars, typeVars, snmpVars>>

SinglePublishBatch == \E ok \in Outcomes : put_metric_data(ok)

\* the for loop of publish_metrics is exhausted
PublishMetricsReturn ==
    /\ prog \in {"single_loop", "single_call"} /\ pc = "s_publish"
    /\ i >= Len(metric_data)
    /\ pc' = "s_return"
    /\ UNCHANGED <<prog, backend, now, ticks, calls, submitted, log, slept, i,
                   fleetVars, singleVars, genVars, regVars, typeVars, snmpVars>>

\* time.sleep(60) in the try block of cloudwatch_publisher_loop completes
SingleSleep ==
    /\ prog = "single_loop" /\ pc = "s_return"
    /\ now' = now + SINGLE_INTERVAL
    /\ slept' = SINGLE_INTERVAL
    /\ pc' = "s_loop"
    /\ UNCHANGED <<prog, backend, ticks, calls, submitted, log, i, fleetVars,
                   singleVars, genVars, regVars, typeVars, snmpVars>>

\* an Exception escapes collect_and_publish (raised outside the try block of
\* publish_metrics): except Exception as e: logger.error(...)
SingleTickError ==
    /\ prog = "single_loop" /\ pc = "s_call"
    /\ log' = "error_loop"
    /\ pc' = "s_except_sleep"
    /\ UNCHANGED <<prog, backend, now, ticks, calls, submitted, slept, i, fleetVars,
                   singleVars, genVars, regVars, typeVars, snmpVars>>

\* time.sleep(60) of the except block completes
SingleExceptSleep ==
    /\ prog = "single_loop" /\ pc = "s_except_sleep"
    /\ now' = now + SINGLE_INTERVAL
    /\ slept' = SINGLE_INTERVAL
    /\ pc' = "s_loop"
    /\ UNCHANGED <<prog, backend, ticks, calls, submitted, log, i, fleetVars,
                   singleVars, genVars, regVars, typeVars, snmpVars>>

SingleNext ==
    \/ CollectAndPublish
    \/ PublishMetricsConvert
    \/ SinglePublishBatch
    \/ PublishMetricsReturn
    \/ SingleSleep
    \/ SingleTickError
    \/ SingleExceptSleep

Init == InitFleet \/ InitSingleLoop \/ InitSingleCall

Next == FleetNext \/ SingleNext

Spec == Init /\ [][Next]_vars

\* ------------------------------------------- the generators on their own
\* a ServerMetricsGenerator right after __init__
InitServerGen ==
    /\ prog = "server_gen" /\ backend = "any" /\ pc = "created"
    /\ gen \in ServerBaselines /\ metrics = <<>>
    /\ num_servers = 0 /\ enabled = TRUE /\ metrics_data = <<>>
    /\ rng = "low"
    /\ metric_name = ""
    /\ InitCommon

\* the module-level metrics_gen = MetricsGenerator()
InitMetricsGen ==
    /\ prog = "metrics_gen" /\ backend = "any" /\ pc = "created"
    /\ gen = MetricsGeneratorInit /\ metrics = <<>>
    /\ num_servers = 0 /\ enabled = TRUE /\ metrics_data = <<>>
    /\ rng = "low"
    /\ metric_name = ""
    /\ InitCommon

\* generator.get_all_metrics()
GetAllMetrics ==
    /\ prog = "server_gen" /\ pc = "created"
    /\ \E d \in ServerDraws : metrics' = get_all_metrics(gen, d)
    /\ pc' = "read"
    /\ UNCHANGED <<prog, backend, now, ticks, calls, submitted, log, slept, i,
                   fleetVars, singleVars, gen, typeVars, snmpVars>>

\* metrics_gen.get_...(): one reading of the single-server generator
GetReading ==
    /\ prog = "metrics_gen" /\ pc \in {"created", "read"}
    /\ \E m \in Getters : \E v \in GetterDraws(m) :
          metrics' = [method |-> m, value |-> GetterValue(m, gen, v)]
    /\ pc' = "read"
    /\ UNCHANGED <<prog, backend, now, ticks, calls, submitted, log, slept, i,
                   fleetVars, singleVars, gen, typeVars, snmpVars>>

\* the metric names _get_metric_type is called with: the ten of the fleet, and
\* names that hold none, a part, a capitalized form or several of the substrings
ClassifyNames ==
    { MetricKinds[k] : k \in 1..Len(MetricKinds) }
    \cup { "", "uptime", "network_throughput", "CPU1_Temperature", "Fan1_Speed",
           "fan_power", "power_usage", "fan_temp_usage", "tem" }

\* before a call of _get_metric_type(metric_name)
InitClassify ==
    /\ prog = "classify" /\ backend = "any" /\ pc = "created"
    /\ gen = <<>> /\ metrics = <<>>
    /\ num_servers = 0 /\ enabled = TRUE /\ metrics_data = <<>>
    /\ rng = "low"
    /\ metric_name \in ClassifyNames
    /\ InitCommon

\* self._get_metric_type(metric_name)
GetMetricType ==
    /\ prog = "classify" /\ pc = "created"
    /\ metric_type' = _get_metric_type(metric_name)
    /\ pc' = "classified"
    /\ UNCHANGED <<prog, backend, now, ticks, calls, submitted, log, slept, i,
                   fleetVars, singleVars, genVars, metric_name, snmpVars>>

InitGen == InitServerGen \/ InitMetricsGen \/ InitClassify

NextGen ==
    \/ GetAllMetrics
    \/ GetReading
    \/ GetMetricType

SpecGen == InitGen /\ [][NextGen]_vars

\* ------------------------------------------------- scenario B of the spec
\* the default fleet against a backend that fails every 5th submission
InitB ==
    /\ prog = "fleet" /\ backend = "every5th" /\ pc = "construct"
    /\ num_servers = NUM_SERVERS
    /\ enabled = TRUE /\ metrics_data = <<>>
    /\ gen = <<>> /\ metrics = <<>>
    /\ rng = "low"
    /\ metric_name = ""
    /\ InitCommon

NextB ==
    \/ ConstructServer
    \/ Constructed
    \/ TickStart
    \/ CollectAllMetrics
    \/ CollectReturn
    \/ PublishBatch
    \/ PublishReturn
    \/ LoopReport
    \/ Sleep

SpecB == InitB /\ [][NextB]_vars


\* ------------------------------------------------ snmp_agent.py: the MIB
DELL_OID_BASE == <<1, 3, 6, 1, 4, 1, 674>>

CPU_TEMP_OID == DELL_OID_BASE \o <<10892, 5, 4, 700, 20, 1, 6, 1, 1>>
INLET_TEMP_OID == DELL_OID_BASE \o <<10892, 5, 4, 700, 20, 1, 6, 1, 2>>
EXHAUST_TEMP_OID == DELL_OID_BASE \o <<10892, 5, 4, 700, 20, 1, 6, 1, 3>>
FAN1_SPEED_OID == DELL_OID_BASE \o <<10892, 5, 4, 700, 12, 1, 6, 1, 1>>
FAN2_SPEED_OID == DELL_OID_BASE \o <<10892, 5, 4, 700, 12, 1, 6, 1, 2>>
FAN3_SPEED_OID == DELL_OID_BASE \o <<10892, 5, 4, 700, 12, 1, 6, 1, 3>>
POWER_CONSUMPTION_OID == DELL_OID_BASE \o <<10892, 5, 4, 600, 30, 1, 6, 1, 3>>
POWER_STATUS_OID == DELL_OID_BASE \o <<10892, 5, 4, 600, 12, 1, 5, 1, 1>>
SYSTEM_STATUS_OID == DELL_OID_BASE \o <<10892, 5, 4, 200, 10, 1, 4, 1>>
CHASSIS_STATUS_OID == DELL_OID_BASE \o <<10892, 5, 4, 200, 10, 1, 4, 1>>
MEMORY_STATUS_OID == DELL_OID_BASE \o <<10892, 5, 4, 1100, 50, 1, 5, 1, 1>>
DISK_STATUS_OID == DELL_OID_BASE \o <<10892, 5, 5, 1, 20, 130, 4, 1, 4>>

\* DellSNMPAgent.generate_metrics: the dicts it can return
generate_metrics ==
    [ cpu_temp          : RandInt(40, 85),
      inlet_temp        : RandInt(20, 35),
      exhaust_temp      : RandInt(30, 50),
      fan1_speed        : RandInt(2000, 8000),
      fan2_speed        : RandInt(2000, 8000),
      fan3_speed        : RandInt(2000, 8000),
      power_consumption : RandInt(200, 600),
      power_status      : {3},
      system_status     : {3},
      chassis_status    : {3},
      memory_status     : {3},
      disk_status       : {3} ]

\* add_mib_objects: the writeVars calls in program order, as (OID, reading, value)
WrittenVars(m) ==
    << <<CPU_TEMP_OID, "cpu_temp", m.cpu_temp>>,
       <<INLET_TEMP_OID, "inlet_temp", m.inlet_temp>>,
       <<EXHAUST_TEMP_OID, "exhaust_temp", m.exhaust_temp>>,
       <<FAN1_SPEED_OID, "fan1_speed", m.fan1_speed>>,
       <<FAN2_SPEED_OID, "fan2_speed", m.fan2_speed>>,
       <<FAN3_SPEED_OID, "fan3_speed", m.fan3_speed>>,
       <<POWER_CONSUMPTION_OID, "power_consumption", m.power_consumption>>,
       <<POWER_STATUS_OID, "power_status", m.power_status>>,
       <<SYSTEM_STATUS_OID, "system_status", m.system_status>>,
       <<CHASSIS_STATUS_OID, "chassis_status", m.chassis_status>>,
       <<MEMORY_STATUS_OID, "memory_status", m.memory_status>>,
       <<DISK_STATUS_OID, "disk_status", m.disk_status>> >>

\* mib_instrum.writeVars(((oid, 0), Integer(value))): the MIB holds one
\* variable per OID, a second write to an OID replaces the first
MibWrite(m, var) ==
    IF \E k \in 1..Len(m) : m[k][1] = var[1]
       THEN [ k \in 1..Len(m) |-> IF m[k][1] = var[1] THEN var ELSE m[k] ]
       ELSE Append(m, var)

\* python snmp_agent.py: setup_agent has called add_mib_objects
InitSnmp ==
    /\ prog = "snmp" /\ backend = "any" /\ pc = "add_mib_objects"
    /\ gen = <<>> /\ metrics = <<>>
    /\ num_servers = 0 /\ enabled = TRUE /\ metrics_data = <<>>
    /\ rng = "low"
    /\ metric_name = ""
    /\ InitCommon

\* metrics = self.generate_metrics()
GenerateMetrics ==
    /\ prog = "snmp" /\ pc = "add_mib_objects"
    /\ metrics' \in generate_metrics
    /\ i' = 0
    /\ pc' = "write"
    /\ UNCHANGED <<prog, backend, now, ticks, calls, submitted, log, slept,
                   fleetVars, singleVars, gen, typeVars, snmpVars>>

\* one mib_instrum.writeVars call of add_mib_objects; i counts the calls made
WriteVars ==
    /\ prog = "snmp" /\ pc = "write" /\ i < Len(WrittenVars(metrics))
    /\ mib' = MibWrite(mib, WrittenVars(metrics)[i + 1])
    /\ i' = i + 1
    /\ UNCHANGED <<prog, backend, pc, now, ticks, calls, submitted, log, slept,
                   fleetVars, singleVars, genVars, typeVars, response>>

\* logger.info("MIB objects registered")
MibRegistered ==
    /\ prog = "snmp" /\ pc = "write" /\ i >= Len(WrittenVars(metrics))
    /\ log' = "mib_registered"
    /\ pc' = "registered"
    /\ UNCHANGED <<prog, backend, now, ticks, calls, submitted, slept, i,
                   fleetVars, singleVars, genVars, typeVars, snmpVars>>

\* run: setup_agent has returned, jobStarted(1) and runDispatcher()
RunDispatcher ==
    /\ prog = "snmp" /\ pc = "registered"
    /\ log' = "snmp_started"
    /\ pc' = "serving"
    /\ UNCHANGED <<prog, backend, now, ticks, calls, submitted, slept, i,
                   fleetVars, singleVars, genVars, typeVars, snmpVars>>

\* the OIDs the managers of the model ask for: a reading and a status code
RequestedOids == {CPU_TEMP_OID, SYSTEM_STATUS_OID}

\* the values the managers of the model write
SetValues == {0}

\* GetRequest of an agent that generates the readings anew for every request
GetRequestFresh ==
    /\ prog = "snmp" /\ pc = "serving" /\ calls < MaxRequests
    /\ \E k \in 1..Len(mib) : \E m \in generate_metrics :
          /\ mib[k][1] \in RequestedOids
          /\ \E a \in 1..Len(WrittenVars(m)) :
                /\ WrittenVars(m)[a][1] = mib[k][1]
                /\ response' = [op |-> "get", oid |-> mib[k][1],
                                value |-> WrittenVars(m)[a][3]]
    /\ calls' = calls + 1
    /\ UNCHANGED <<prog, backend, pc, now, ticks, submitted, log, slept, i,
                   fleetVars, singleVars, genVars, typeVars, mib>>

\* cmdrsp.GetCommandResponder answers a GET: the variable the MIB holds under
\* the OID; calls counts the requests answered
GetRequest ==
    /\ prog = "snmp" /\ pc = "serving" /\ calls < MaxRequests
    /\ \E k \in 1..Len(mib) :
          /\ mib[k][1] \in RequestedOids
          /\ response' = [op |-> "get", oid |-> mib[k][1], value |-> mib[k][3]]
    /\ calls' = calls + 1
    /\ UNCHANGED <<prog, backend, pc, now, ticks, submitted, log, slept, i,
                   fleetVars, singleVars, genVars, typeVars, mib>>

\* cmdrsp.SetCommandResponder answers a SET of a manager the VACM entries give
\* write access to the Dell subtree: the same writeVars the agent itself uses
SetRequest ==
    /\ prog = "snmp" /\ pc = "serving" /\ calls < MaxRequests
    /\ \E k \in 1..Len(mib) : \E v \in SetValues :
          /\ mib[k][1] \in RequestedOids
          /\ mib' = MibWrite(mib, <<mib[k][1], mib[k][2], v>>)
          /\ response' = [op |-> "set", oid |-> mib[k][1], value |-> v]
    /\ calls' = calls + 1
    /\ UNCHANGED <<prog, backend, pc, now, ticks, submitted, log, slept, i,
                   fleetVars, singleVars, genVars, typeVars>>

\* run: except KeyboardInterrupt, finally closeDispatcher()
StopAgent ==
    /\ prog = "snmp" /\ pc = "serving"
    /\ log' = "snmp_stopped"
    /\ pc' = "closed"
    /\ UNCHANGED <<prog, backend, now, ticks, calls, submitted, slept, i,
                   fleetVars, singleVars, genVars, typeVars, snmpVars>>

NextSnmp ==
    \/ GenerateMetrics
    \/ WriteVars
    \/ MibRegistered
    \/ RunDispatcher
    \/ GetRequest
    \/ SetRequest
    \/ StopAgent

SpecSnmp == InitSnmp /\ [][NextSnmp]_vars

\* ------------------------------ the registry alone: MultiServerCloudWatchPublisher(n)
\* the constructor called with any integer: small fleets, zero, negative sizes
\* and a fleet of more than 999 servers
InitReg ==
    /\ prog = "fleet" /\ backend = "any" /\ pc = "construct"
    /\ num_servers \in (-MaxServers..MaxServers) \cup {BigFleet}
    /\ enabled = TRUE /\ metrics_data = <<>>
    /\ gen = <<>> /\ metrics = <<>>
    /\ rng = "low"
    /\ metric_name = ""
    /\ InitCommon

NextReg == ConstructServer \/ Constructed

SpecReg == InitReg /\ [][NextReg]_vars

\* --------------------- the fleet emulator with baselines and draws that differ
\* python multi_server_emulator.py for small fleets, every random draw at
\* either end of its range, a backend that answers, no exception, no interrupt
InitEnds ==
    /\ prog = "fleet" /\ backend = "any" /\ pc = "construct"
    /\ num_servers \in 1..EndsServers
    /\ enabled = TRUE /\ metrics_data = <<>>
    /\ gen = <<>> /\ metrics = <<>>
    /\ rng = "ends"
    /\ metric_name = ""
    /\ InitCommon

NextEnds ==
    \/ ConstructServer
    \/ Constructed
    \/ TickStart
    \/ CollectPoint
    \/ CollectReturn
    \/ PublishBatch
    \/ PublishReturn
    \/ LoopReport
    \/ Sleep

SpecEnds == InitEnds /\ [][NextEnds]_vars

\* ------------------------------------------ publisher_loop running forever
\* the fleet emulator against any backend and against one that is down
InitLive ==
    /\ prog = "fleet" /\ backend \in {"any", "down"} /\ pc = "construct"
    /\ num_servers \in 0..MaxServers
    /\ enabled = TRUE /\ metrics_data = <<>>
    /\ gen = <<>> /\ metrics = <<>>
    /\ rng = "low"
    /\ metric_name = ""
    /\ InitCommon

\* "while True" has no counter: between two iterations the counters the model
\* keeps about the run (ticks, clock, calls) start again from zero
Rewind ==
    /\ prog = "fleet" /\ pc = "loop" /\ ticks = MaxTicks
    /\ ticks' = 0 /\ now' = 0 /\ calls' = 0
    /\ UNCHANGED <<prog, backend, pc, submitted, log, slept, num_servers, servers,
                   start_time, duration, all_metrics, srv, kind, i, total_batches,
                   successful_batches, success, singleVars, genVars, regVars, typeVars, snmpVars>>

\* the steps the thread of publisher_loop takes by itself
LoopStep ==
    \/ ConstructServer
    \/ Constructed
    \/ TickStart
    \/ CollectPoint
    \/ CollectReturn
    \/ PublishBatch
    \/ PublishReturn
    \/ LoopReport
    \/ Sleep
    \/ ExceptSleep
    \/ Rewind

\* the clock is left out: no step of the loop depends on it
NextLive ==
    \/ LoopStep
    \/ TickError
    \/ Interrupt

\* the interpreter keeps running the thread: every call returns or raises,
\* every sleep ends
SpecLive == InitLive /\ [][NextLive]_vars /\ WF_vars(LoopStep)

\* ================================================================ claims
\* the batches of a sequence of put_metric_data calls, concatenated
RECURSIVE Flatten(_)
Flatten(subs) ==
    IF subs = <<>> THEN <<>> ELSE subs[1].batch \o Flatten(Tail(subs))

\* the number of calls of a sequence of put_metric_data calls that succeeded
NumOk(subs) == Cardinality({k \in 1..Len(subs) : subs[k].ok})

CeilDiv(a, b) == (a + b - 1) \div b

\* publish_all_metrics has returned and the tick is not over
TickPublished == prog = "fleet" /\ pc \in {"report", "sleep"}

\* C1: every batch handed to cloudwatch.put_metric_data, by publish_all_metrics
\* and by publish_metrics, holds at least 1 and at most 20 data points.
C1_BatchSize ==
    \A k \in 1..Len(submitted) :
        /\ Len(submitted[k].batch) >= 1
        /\ Len(submitted[k].batch) <= BackendLimit

C1_Witness ==
    /\ prog = "single_call"
    /\ Len(metric_data) = 41
    /\ Len(submitted) = 3
    /\ Len(submitted[1].batch) = 20
    /\ Len(submitted[3].batch) = 1

\* C2: when publish_all_metrics has returned, the submitted batches,
\* concatenated in submission order, are the snapshot; there are ceil(L/20)
\* of them and all but the last hold exactly 20 points.
C2_ExactPartition ==
    TickPublished =>
        /\ Flatten(submitted) = all_metrics
        /\ Len(submitted) = CeilDiv(Len(all_metrics), 20)
        /\ \A k \in 1..(Len(submitted) - 1) : Len(submitted[k].batch) = 20

C2_Witness ==
    /\ prog = "fleet" /\ pc = "report"
    /\ Len(all_metrics) = 30
    /\ Len(submitted) = 2
    /\ Len(submitted[1].batch) = 20
    /\ Len(submitted[2].batch) = 10

\* C3: a submission that fails leaves publish_all_metrics in its loop, which
\* moves on to the next batch, and when publish_all_metrics has returned every
\* batch of the snapshot was submitted exactly once, whatever the outcomes.
C3_FailureIsolated ==
    /\ [](TickPublished =>
            \A b \in 0..(CeilDiv(Len(all_metrics), 20) - 1) :
                Cardinality({k \in 1..Len(submitted) :
                    submitted[k].batch =
                        SubSeq(all_metrics, 20 * b + 1,
                               Min(20 * b + 20, Len(all_metrics)))}) = 1)
    /\ [][(/\ prog = "fleet"
           /\ Len(submitted') = Len(submitted) + 1
           /\ ~submitted'[Len(submitted')].ok)
          => (/\ pc' = "publish"
              /\ i' = i + 20
              /\ log' = "error_batch")]_vars

C3_Witness ==
    /\ prog = "fleet" /\ pc = "report"
    /\ Len(submitted) = 2
    /\ ~submitted[1].ok
    /\ submitted[2].ok

\* C4: when publish_all_metrics has returned, successful_batches is the number
\* of submissions that succeeded, total_batches the number attempted and the
\* return value is True iff all succeeded; publisher_loop then logs the warning
\* iff a batch failed.
C4_TickReport ==
    /\ TickPublished =>
          /\ successful_batches = NumOk(submitted)
          /\ total_batches = Len(submitted)
          /\ success = (\A k \in 1..Len(submitted) : submitted[k].ok)
    /\ (prog = "fleet" /\ pc = "sleep") =>
          /\ log \in {"info_all_published", "warning_some_failed"}
          /\ (log = "warning_some_failed") = (\E k \in 1..Len(submitted) : ~submitted[k].ok)

C4_Witness ==
    /\ prog = "fleet" /\ pc = "sleep"
    /\ log = "warning_some_failed"
    /\ total_batches = 2
    /\ successful_batches = 1

\* C5: publish_metrics of the single-server publisher, handed a list of more
\* than one batch, has submitted every batch when it returns, whatever the
\* outcomes, and a failed submission never reaches the handler of the caller.
C5_SingleFailureIsolated ==
    /\ (/\ prog \in {"single_loop", "single_call"}
        /\ pc = "s_return"
        /\ Len(metric_data) > 20)
       => Len(submitted) = CeilDiv(Len(metric_data), 20)
    /\ (/\ prog \in {"single_loop", "single_call"}
        /\ submitted # <<>>
        /\ ~submitted[Len(submitted)].ok)
       => pc # "s_except_sleep"

\* C6: with 200 servers a tick collects 2000 points and attempts 100 batches;
\* against a backend failing every 5th submission it reports 80 of 100, returns
\* False, logs the warning, sleeps and goes on to the next tick.
C6_ScenarioB ==
    /\ [](TickPublished =>
            /\ Len(all_metrics) = 2000
            /\ Len(submitted) = 100
            /\ total_batches = 100
            /\ successful_batches = 80
            /\ Len(submitted) - NumOk(submitted) = 20
            /\ success = FALSE)
    /\ [][pc = "report" => (pc' = "sleep" /\ log' = "warning_some_failed")]_vars
    /\ [][pc = "sleep" => pc' = "loop"]_vars
    /\ [][pc = "loop" => (pc' = "collect" /\ ticks' = ticks + 1)]_vars

C6_Witness ==
    /\ prog = "fleet" /\ backend = "every5th"
    /\ ticks = 1 /\ pc = "sleep"
    /\ log = "warning_some_failed"
    /\ Len(servers) = 200
    /\ successful_batches = 80

\* C7: all data points of one collect_all_metrics call carry one timestamp,
\* the start time of the tick.
C7_OneTimestamp ==
    prog = "fleet" =>
        \A k \in 1..Len(all_metrics) : all_metrics[k].Timestamp = start_time

\* C8: get_all_metrics returns cpu1_temp and cpu2_temp within [40,85],
\* power_consumption within [200,600], cpu_usage and memory_usage within [0,100].
C8_ReadingsInRange ==
    (prog = "server_gen" /\ pc = "read") =>
        /\ metrics.cpu1_temp >= 40 * Scale /\ metrics.cpu1_temp <= 85 * Scale
        /\ metrics.cpu2_temp >= 40 * Scale /\ metrics.cpu2_temp <= 85 * Scale
        /\ metrics.power_consumption >= 200 * Scale
        /\ metrics.power_consumption <= 600 * Scale
        /\ metrics.cpu_usage >= 0 /\ metrics.cpu_usage <= 100 * Scale
        /\ metrics.memory_usage >= 0 /\ metrics.memory_usage <= 100 * Scale

\* C9: MetricsGenerator.get_fan_speed and the fan1_speed and fan2_speed of
\* ServerMetricsGenerator.get_all_metrics are at least 2000 for every draw.
C9_FanFloor ==
    /\ (prog = "metrics_gen" /\ pc = "read" /\ metrics.method = "get_fan_speed")
          => metrics.value >= 2000
    /\ (prog = "server_gen" /\ pc = "read")
          => (metrics.fan1_speed >= 2000 /\ metrics.fan2_speed >= 2000)

C9_Witness ==
    /\ prog = "metrics_gen" /\ pc = "read"
    /\ metrics.method = "get_fan_speed"
    /\ metrics.value = 2000

\* C10: an exception raised during a tick is caught by the loop: the loop goes
\* to the sleep of its handler, that sleep lasts the normal interval and is
\* followed by the next iteration, and the loop ends on an interrupt only.
C10_TickErrorRecovered ==
    /\ [][(log' = "error_loop" /\ log # "error_loop")
          => pc' \in {"except_sleep", "s_except_sleep"}]_vars
    /\ [][(pc = "except_sleep" /\ pc' \notin {"except_sleep", "stopped"})
          => (pc' = "loop" /\ now' = now + PUBLISH_INTERVAL /\ ticks' = ticks)]_vars
    /\ [][(pc = "s_except_sleep" /\ pc' # "s_except_sleep")
          => (pc' = "s_loop" /\ now' = now + 60 /\ ticks' = ticks)]_vars
    /\ [](pc = "stopped" => log \in {"shutting_down", "stopped_by_user"})
    /\ [](pc \in {"loop", "s_loop"} /\ log = "error_loop" => slept = 60)

\* the second tick is collecting after the first one ended in an exception
\* (the first made no submission and publish_all_metrics never returned)
C10_Witness ==
    /\ prog = "fleet" /\ pc = "collect"
    /\ ticks = 2
    /\ duration = 0
    /\ slept = PUBLISH_INTERVAL
    /\ success = FALSE
    /\ calls = 0

\* C11: unless an interrupt stops it, publisher_loop starts a tick again and
\* again, also when every submission of every tick fails.
C11_TicksForever ==
    \/ <>(pc = "stopped")
    \/ []<>(pc = "collect" /\ all_metrics = <<>>)

\* the second tick is collecting after a first one whose two submissions both
\* failed against a backend that is down
C11_Witness ==
    /\ prog = "fleet" /\ backend = "down"
    /\ num_servers = 3
    /\ ticks = 2 /\ pc = "collect"
    /\ calls = 2

\* C12: a tick of publisher_loop starts collecting only after one sleep of
\* PUBLISH_INTERVAL has completed and every batch of the snapshot the tick
\* before collected has been attempted.
C12_TicksSeparated ==
    [][(prog = "fleet" /\ pc = "loop" /\ pc' = "collect" /\ ticks >= 1)
       => /\ slept = PUBLISH_INTERVAL
          /\ (Len(all_metrics) = 10 * Len(servers)
                => Len(submitted) = CeilDiv(Len(all_metrics), 20))]_vars

\* C12 (amended): collection starts at the top of the loop only, which is
\* entered only by a completed sleep of exactly PUBLISH_INTERVAL, whatever the
\* tick took and however many batches failed; the sleep of the try block starts
\* only after every batch was attempted, the sleep of the handler only after an
\* exception ended the tick; batches are submitted in the publishing phase only.
C12_TicksSeparatedOrAbandoned ==
    /\ [][(prog = "fleet" /\ pc' = "collect" /\ pc # "collect")
          => (pc = "loop" /\ now' = now /\ submitted' = <<>>)]_vars
    /\ [][(prog = "fleet" /\ pc' = "loop" /\ pc \notin {"loop", "construct"})
          => /\ pc \in {"sleep", "except_sleep"}
             /\ now' = now + PUBLISH_INTERVAL
             /\ slept' = PUBLISH_INTERVAL]_vars
    /\ [][(prog = "fleet" /\ pc' = "sleep" /\ pc # "sleep")
          => /\ i >= Len(all_metrics)
             /\ Len(submitted) = CeilDiv(Len(all_metrics), 20)]_vars
    /\ [][(prog = "fleet" /\ pc' = "except_sleep" /\ pc # "except_sleep")
          => log' = "error_loop"]_vars
    /\ [][(prog = "fleet" /\ submitted' # submitted /\ submitted' # <<>>)
          => (pc = "publish" /\ pc' = "publish")]_vars

\* the second tick starts 61 s after the first, which took 1 s, had a failed
\* batch and was followed by one sleep
C12_Witness ==
    /\ prog = "fleet" /\ pc = "collect"
    /\ ticks = 2
    /\ start_time = 61
    /\ duration = 1
    /\ ~success
    /\ slept = PUBLISH_INTERVAL

\* C13: a KeyboardInterrupt can arrive in every phase of publisher_loop; it
\* ends the loop at once without submitting anything, what was submitted stays
\* submitted, and a stopped loop never submits, collects or sleeps again.
C13_InterruptStops ==
    /\ [](prog = "fleet" /\ pc # "stopped" => ENABLED Interrupt)
    /\ [][Interrupt => (pc' = "stopped" /\ submitted' = submitted /\ calls' = calls)]_vars
    /\ [][(prog = "fleet" /\ pc = "stopped")
          => /\ pc' = "stopped"
             /\ submitted' = submitted /\ calls' = calls
             /\ ticks' = ticks /\ now' = now]_vars

\* interrupted between the first and the second batch of a tick of three
\* servers: one batch submitted, the second never is
C13_Witness ==
    /\ prog = "fleet" /\ pc = "stopped"
    /\ log = "shutting_down"
    /\ Len(all_metrics) = 30
    /\ i = 20
    /\ Len(submitted) = 1
    /\ calls = 1

\* the number a sequence of decimal digits denotes
RECURSIVE DecimalValue(_)
DecimalValue(ds) ==
    IF ds = <<>> THEN 0
    ELSE 10 * DecimalValue(SubSeq(ds, 1, Len(ds) - 1)) + ds[Len(ds)]

\* C14: for every fleet size N >= 1 the constructed registry holds exactly N
\* servers; the k-th identifier is DELL-SRV- followed by the decimal digits of
\* k, at least three of them, and the identifiers are pairwise distinct, also
\* when N exceeds 999.
C14_DistinctIds ==
    (prog = "fleet" /\ pc = "loop" /\ ticks = 0 /\ num_servers >= 1)
    => /\ Len(servers) = num_servers
       /\ Len(generators) = num_servers
       /\ \A k \in 1..Len(servers) :
             /\ servers[k][1] = "DELL-SRV-"
             /\ Len(servers[k]) >= 4
             /\ \A d \in 2..Len(servers[k]) : servers[k][d] \in 0..9
             /\ (Len(servers[k]) > 4 => servers[k][2] # 0)
             /\ DecimalValue(Tail(servers[k])) = k
             /\ generators[k].server_id = servers[k]
       /\ \A a, b \in 1..Len(servers) : a # b => servers[a] # servers[b]

\* a registry of BigFleet servers: server 1000 has a four-digit index
C14_Witness ==
    /\ prog = "fleet" /\ pc = "loop"
    /\ num_servers = BigFleet
    /\ Len(servers) = BigFleet
    /\ servers[1] = <<"DELL-SRV-", 0, 0, 1>>
    /\ servers[1000] = <<"DELL-SRV-", 1, 0, 0, 0>>

\* C15: constructing the registry with a size of zero or less does not produce
\* a registry.
C15_RejectsNonPositive ==
    (prog = "fleet" /\ num_servers <= 0) => pc = "construct"

\* the ten metric kinds a server declares
DeclaredKinds ==
    { "cpu1_temp", "cpu2_temp", "inlet_temp", "exhaust_temp", "disk_temp",
      "fan1_speed", "fan2_speed", "power_consumption", "cpu_usage", "memory_usage" }

\* C16: the snapshot collect_all_metrics returns for N servers has N x 10 data
\* points: for every server and every declared kind exactly one, and none of
\* another kind.
C16_AllKindsOnce ==
    (prog = "fleet" /\ pc \in {"publish", "report", "sleep"})
    => /\ Cardinality(DeclaredKinds) = 10
       /\ Len(all_metrics) = Len(servers) * 10
       /\ \A j \in 1..Len(all_metrics) : all_metrics[j].MetricName \in DeclaredKinds
       /\ \A s \in 1..Len(servers) : \A name \in DeclaredKinds :
             Cardinality({ j \in 1..Len(all_metrics) :
                             /\ all_metrics[j].ServerID = servers[s]
                             /\ all_metrics[j].MetricName = name }) = 1

\* the snapshot of three servers, before its first batch is cut
C16_Witness ==
    /\ prog = "fleet" /\ pc = "publish" /\ i = 0
    /\ Len(servers) = 3
    /\ Len(all_metrics) = 30
    /\ all_metrics[30].MetricName = "disk_temp"

\* the five categories of the MetricType tag
Categories == {"Thermal", "Cooling", "Power", "Performance", "General"}

\* data point p carries the identifier of server k, a category, and a value the
\* generator of server k yields from some draw
TaggedFor(p, k) ==
    /\ p.ServerID = servers[k]
    /\ p.ServerID = generators[k].server_id
    /\ p.MetricType \in Categories
    /\ \E u \in {"lo", "hi"} :
          p.Value = ValueOf(get_all_metrics(generators[k], ServerDrawAt(u)), p.MetricName)

\* C17: every data point of a snapshot carries the identifier of the server
\* whose generator produced its value (the points come server by server, ten
\* each) and a MetricType category; so does every data point of every
\* submitted batch.
C17_ServerTag ==
    prog = "fleet"
    => /\ \A j \in 1..Len(all_metrics) :
             /\ ((j - 1) \div 10) + 1 \in 1..Len(servers)
             /\ TaggedFor(all_metrics[j], ((j - 1) \div 10) + 1)
       /\ \A b \in 1..Len(submitted) : \A j \in 1..Len(submitted[b].batch) :
             \E k \in 1..Len(servers) : TaggedFor(submitted[b].batch[j], k)

\* two servers with different baselines; the snapshot of both was submitted in
\* one batch, the readings of the second tagged with the second identifier
C17_Witness ==
    /\ prog = "fleet" /\ pc = "publish"
    /\ Len(servers) = 2
    /\ generators[1].base_cpu_temp # generators[2].base_cpu_temp
    /\ Len(submitted) = 1
    /\ Len(submitted[1].batch) = 20
    /\ submitted[1].batch[11].ServerID = <<"DELL-SRV-", 0, 0, 2>>
    /\ submitted[1].batch[11].MetricType = "Thermal"

\* C18: _get_metric_type returns one of the five categories for every name;
\* temperatures map to Thermal, fan speeds to Cooling, power_consumption to
\* Power, the usages to Performance, and a name that holds none of the
\* substrings temp, fan, power, usage (in lower case) to General.
C18_CategoryMapping ==
    (prog = "classify" /\ pc = "classified")
    => /\ metric_type \in Categories
       /\ (metric_name \in {"cpu1_temp", "cpu2_temp", "inlet_temp", "exhaust_temp",
                            "disk_temp"} => metric_type = "Thermal")
       /\ (metric_name \in {"fan1_speed", "fan2_speed"} => metric_type = "Cooling")
       /\ (metric_name = "power_consumption" => metric_type = "Power")
       /\ (metric_name \in {"cpu_usage", "memory_usage"} => metric_type = "Performance")
       /\ (metric_name \in {"", "uptime", "network_throughput", "CPU1_Temperature",
                            "Fan1_Speed", "tem"} => metric_type = "General")

\* a fan speed was classified
C18_Witness ==
    /\ prog = "classify" /\ pc = "classified"
    /\ metric_name = "fan2_speed"
    /\ metric_type = "Cooling"

\* C19: the OIDs add_mib_objects writes the twelve readings to are pairwise
\* distinct, so that after registration the MIB holds twelve variables, one
\* for each reading.
C19_OidsDistinct ==
    (prog = "snmp" /\ pc = "registered")
    => /\ \A a, b \in 1..Len(WrittenVars(metrics)) :
             a # b => WrittenVars(metrics)[a][1] # WrittenVars(metrics)[b][1]
       /\ Len(mib) = 12
       /\ \A a \in 1..Len(WrittenVars(metrics)) :
             \E k \in 1..Len(mib) : mib[k] = WrittenVars(metrics)[a]

\* C20: once the registry is constructed no step changes its identifiers or
\* a baseline of a generator, and every get_all_metrics of a tick yields a
\* reading computed from the baseline of its server and one draw, whatever the
\* ticks before have read.
C20_RegistryFixed ==
    /\ [][(prog = "fleet" /\ pc # "construct")
          => /\ servers' = servers
             /\ generators' = generators
             /\ num_servers' = num_servers]_vars
    /\ [][(prog = "fleet" /\ server_metrics' # server_metrics)
          => /\ pc = "collect" /\ srv \in 1..Len(servers)
             /\ \E u \in {"lo", "hi"} :
                   server_metrics' = get_all_metrics(generators[srv], ServerDrawAt(u))]_vars
    /\ [](prog = "fleet" /\ pc # "construct"
          => /\ Len(servers) = num_servers
             /\ \A k \in 1..Len(servers) :
                   /\ generators[k].server_id = servers[k]
                   /\ \E u \in {"lo", "hi"} :
                         generators[k] = ServerMetricsGenerator(servers[k], u))

\* the second tick reads the first of two servers with different baselines
C20_Witness ==
    /\ prog = "fleet" /\ pc = "collect"
    /\ ticks = 2
    /\ Len(servers) = 2
    /\ generators[1].base_cpu_temp # generators[2].base_cpu_temp
    /\ srv = 2 /\ kind = 1
    /\ server_metrics = get_all_metrics(generators[1], ServerDrawAt("hi"))
    /\ Len(all_metrics) = 10

\* C21: with a registry of zero servers the snapshot is empty, the backend
\* never receives a submission, and a publish_all_metrics that has returned
\* counted 0 of 0 batches and returned True, which the loop reports as a tick
\* that published everything.
C21_EmptySnapshot ==
    (prog = "fleet" /\ pc # "construct" /\ servers = <<>>)
    => /\ all_metrics = <<>>
       /\ submitted = <<>>
       /\ calls = 0
       /\ (pc \in {"report", "sleep"}
             => /\ total_batches = 0
                /\ successful_batches = 0
                /\ success = TRUE)
       /\ (pc = "sleep" => log = "info_all_published")

\* the second tick of a fleet of zero servers has been reported
C21_Witness ==
    /\ prog = "fleet" /\ pc = "sleep"
    /\ num_servers = 0 /\ servers = <<>>
    /\ ticks = 2
    /\ total_batches = 0
    /\ success = TRUE
    /\ log = "info_all_published"

\* the metric kinds both emulators publish: the name the single-server
\* emulator gives a kind, and the name the fleet emulator gives it
SharedKinds ==
    { <<"CPU1_Temperature", "cpu1_temp">>, <<"CPU2_Temperature", "cpu2_temp">>,
      <<"Inlet_Temperature", "inlet_temp">>, <<"Exhaust_Temperature", "exhaust_temp">>,
      <<"Fan1_Speed", "fan1_speed">>, <<"Fan2_Speed", "fan2_speed">>,
      <<"Power_Consumption", "power_consumption">>,
      <<"CPU_Usage", "cpu_usage">>, <<"Memory_Usage", "memory_usage">> }

\* C22: a data point the single-server emulator builds in collect_and_publish
\* carries the MetricType the fleet emulator's _get_metric_type gives the same
\* metric kind; in particular for the fan speeds.
C22_SameCategory ==
    (prog = "single_loop")
    => \A k \in 1..Len(metric_data) : \A p \in SharedKinds :
          metric_data[k].MetricName = p[1]
             => metric_data[k].MetricType = _get_metric_type(p[2])

\* the value add_mib_objects wrote under an OID: the readings drawn at setup
DrawnFor(oid) ==
    { WrittenVars(metrics)[a][3] :
        a \in { b \in 1..Len(WrittenVars(metrics)) : WrittenVars(metrics)[b][1] = oid } }

\* C23: the agent draws its readings once, during setup; every read request
\* is answered with the value drawn at setup, and two reads of the same OID
\* get the same value for the whole lifetime of the agent.
C23_ServedForever ==
    /\ [][(prog = "snmp" /\ metrics' # metrics) => pc = "add_mib_objects"]_vars
    /\ [](prog = "snmp" /\ response # <<>> /\ response.op = "get"
            => response.value \in DrawnFor(response.oid))

\* C23 (amended): the agent draws its readings once, during setup, and never
\* again; while it serves, the MIB changes only by a SET request of a manager,
\* and every read request is answered with the value the MIB holds: the value
\* drawn at setup, or the value a manager has written.
C23_DrawnOnce ==
    /\ [][(prog = "snmp" /\ metrics' # metrics) => pc = "add_mib_objects"]_vars
    /\ [][(prog = "snmp" /\ pc # "add_mib_objects") => pc' # "add_mib_objects"]_vars
    /\ [][(prog = "snmp" /\ pc \in {"registered", "serving", "closed"} /\ mib' # mib)
          => /\ pc = "serving"
             /\ response'.op = "set"
             /\ mib' = MibWrite(mib, <<response'.oid,
                                       (CHOOSE w \in {mib[k] : k \in 1..Len(mib)} :
                                           w[1] = response'.oid)[2],
                                       response'.value>>)]_vars
    /\ [][(prog = "snmp" /\ response' # response /\ response'.op = "get")
          => /\ mib' = mib
             /\ \E k \in 1..Len(mib) :
                   mib[k][1] = response'.oid /\ mib[k][3] = response'.value]_vars
    /\ [](prog = "snmp" /\ response # <<>> /\ response.op = "get"
            => response.value \in DrawnFor(response.oid) \cup SetValues)

\* the second request answered is a read of the CPU temperature, which was
\* drawn at the upper end of its range and never written by a manager
C23_Witness ==
    /\ prog = "snmp" /\ pc = "serving"
    /\ calls = 2
    /\ response # <<>>
    /\ response = [op |-> "get", oid |-> CPU_TEMP_OID, value |-> 85]
    /\ metrics.cpu_temp = 85

====
